---- MODULE Spec2Model ----
(***************************************************************************)
(* A model of the fornjot B-rep kernel core:                               *)
(*   - the identity handle (experiments/2025-03-18/src/handle.rs),         *)
(*   - the Transform operation on surfaces and the Reverse operation on    *)
(*     half-edges (fj-core/src/operations),                                *)
(*   - the AdjacentHalfEdgesNotConnected validation check                  *)
(*     (fj-core/src/validation/checks/half_edge_connection.rs).            *)
(* Three specifications share the module: SpecHandle, SpecOps, SpecCheck.  *)
(***************************************************************************)
EXTENDS Integers, Sequences, FiniteSets, TLC

VARIABLES
    \* ---- handle.rs
    heap,        \* address -> [val, strong]: the Rc allocations (strong = 0: free)
    hvar,        \* handle variable -> address it points to (0: not holding a handle)
    slotOf,      \* history: handle variable -> number of the Handle::new call that made its slot
    allocs,      \* history: number of Handle::new calls so far
    \* ---- Core: the store and the geometry layers
    store,       \* [vertices, curves, surfaces: sets of handles; halfEdges: handle -> [curve, start_vertex]]
    derivedFrom, \* provenance links written by derive_from
    vertexGeom,  \* <<vertex, curve>> -> LocalVertexGeom.position
    curveGeom,   \* <<curve, surface>> -> LocalCurveGeom.path
    surfaceGeom, \* surface -> geometry (layer written by define_surface)
    surfaceGeom2,\* surface -> SurfaceGeom (layer written by define_surface_2)
    cache,       \* the TransformCache of the current transform invocation
    aborted,     \* a panic (failed unwrap / expect) has ended the program
    lastOp,      \* history: the last operation called, its arguments and result
    returned,    \* history: source surface -> handles returned for it under the current cache
    inserted,    \* history: source surface -> surfaces inserted for it under the current cache
    revLog,      \* history: reversed half-edge -> [from, end_vertex, surface] of the call that made it
    \* ---- validation
    object,      \* the Face or Sketch under validation
    config,      \* ValidationConfig.identical_max_distance
    edits,       \* number of geometry redefinitions applied to the object
    report       \* result of the last run of the check on the current geometry

handleVars == <<heap, hvar, slotOf, allocs>>
coreVars == <<store, derivedFrom, vertexGeom, curveGeom, surfaceGeom, surfaceGeom2>>
opsVars == <<cache, aborted, lastOp, returned, inserted, revLog>>
checkVars == <<object, config, edits, report>>
vars == <<handleVars, coreVars, opsVars, checkVars>>

\* Bounds of the model.
MaxHandles == 3
MaxAllocs == 3
MaxReversals == 2
MaxTransforms == 2
MaxEdits == 2

None == "none"

\* A map entry is written or overwritten (BTreeMap::insert).
Upsert(f, k, v) == [x \in (DOMAIN f) \cup {k} |-> IF x = k THEN v ELSE f[x]]

EmptyMap == [x \in {} |-> None]

(***************************************************************************)
(* Handle<T>: a reference-counted pointer compared by address.             *)
(***************************************************************************)
HandleIds == 1..MaxHandles
Addrs == 1..MaxHandles
Values == {"a", "b"}

Live(h) == hvar[h] # 0

FreeAddrs == {a \in Addrs : heap[a].strong = 0}

\* Rc::new may place the allocation at any address not in use.
RcNewAddrs == FreeAddrs

Deref(h) == heap[hvar[h]].val

EqByValue(a, b) == Deref(a) = Deref(b)

\* PartialEq: Rc::ptr_eq
HandleEq(a, b) == hvar[a] = hvar[b]

\* Ord: comparison of Rc::as_ptr
HandleCmp(a, b) ==
    IF hvar[a] < hvar[b] THEN "Less"
    ELSE IF hvar[a] > hvar[b] THEN "Greater" ELSE "Equal"

HandleNew(h, v) ==
    /\ ~Live(h)
    /\ allocs < MaxAllocs
    /\ \E a \in RcNewAddrs :
        /\ heap' = [heap EXCEPT ![a] = [val |-> v, strong |-> 1]]
        /\ hvar' = [hvar EXCEPT ![h] = a]
    /\ allocs' = allocs + 1
    /\ slotOf' = [slotOf EXCEPT ![h] = allocs + 1]

HandleClone(h, g) ==
    /\ Live(h)
    /\ ~Live(g)
    /\ heap' = [heap EXCEPT ![hvar[h]].strong = @ + 1]
    /\ hvar' = [hvar EXCEPT ![g] = hvar[h]]
    /\ slotOf' = [slotOf EXCEPT ![g] = slotOf[h]]
    /\ UNCHANGED allocs

\* Dropping a handle drops its Rc; the last drop frees the allocation.
HandleDrop(h) ==
    /\ Live(h)
    /\ heap' = [heap EXCEPT ![hvar[h]].strong = @ - 1]
    /\ hvar' = [hvar EXCEPT ![h] = 0]
    /\ slotOf' = [slotOf EXCEPT ![h] = 0]
    /\ UNCHANGED allocs

InitHandle ==
    /\ heap = [a \in Addrs |-> [val |-> "a", strong |-> 0]]
    /\ hvar = [h \in HandleIds |-> 0]
    /\ slotOf = [h \in HandleIds |-> 0]
    /\ allocs = 0

(***************************************************************************)
(* Core: the store and the geometry layers.                                *)
(***************************************************************************)
InitVertices == {1, 2, 3}
InitSurfaces == {1, 2}
Transforms == {0, 1}          \* translations applied by Transform

\* A line a + d * t on a surface: origin a and direction d.
Line(a, d) == [origin |-> a, direction |-> d]

\* Insert: the store hands out the next slot; no geometry is touched.
NewHandle(existing) == Cardinality(existing) + 1

\* Geometry::define_vertex: upsert of the vertex's local position on the curve.
DefineVertex(geom, vertex, curve, position) == Upsert(geom, <<vertex, curve>>, position)

\* Geometry::define_curve: upsert of the curve's path on the surface.
DefineCurve(geom, curve, surface, path) == Upsert(geom, <<curve, surface>>, path)

\* Geometry::define_surface / define_surface_2: upsert of the surface's embedding.
DefineSurface(geom, surface, g) == Upsert(geom, surface, g)

\* of_vertex(v).unwrap().local_on(c).unwrap() succeeds.
HasVertexGeom(v, c) == <<v, c>> \in DOMAIN vertexGeom

\* of_curve(c).unwrap() succeeds: the curve has geometry in some context.
HasCurveGeomAnywhere(c) == \E k \in DOMAIN curveGeom : k[1] = c

\* of_curve(c).unwrap().local_on(s) is Some.
HasCurveGeom(c, s) == <<c, s>> \in DOMAIN curveGeom

\* SurfaceGeom::transform by a translation.
TransformGeom(g, t) == g + t

\* The path of a curve with its coordinate system reversed.
ReversePath(path) ==
    Line(path.origin, <<0 - path.direction[1], 0 - path.direction[2]>>)

MapGet(f, k) == IF k \in DOMAIN f THEN f[k] ELSE {}

MapCount(f, k) == IF k \in DOMAIN f THEN f[k] ELSE 0

(***************************************************************************)
(* Transform of a surface, memoized in the TransformCache.                 *)
(***************************************************************************)
CacheNeverHit(s) == FALSE

\* cache.entry(self): the entry is occupied
CacheHit(s) == s \in DOMAIN cache

transform_with_cache(s, t) ==
    /\ ~aborted
    /\ s \in store.surfaces
    /\ IF CacheHit(s)
       THEN /\ lastOp' = [op |-> "transform", ok |-> TRUE, src |-> s, result |-> cache[s], hit |-> TRUE]
            /\ returned' = Upsert(returned, s, MapGet(returned, s) \cup {cache[s]})
            /\ UNCHANGED <<coreVars, cache, aborted, inserted, revLog>>
       ELSE /\ Cardinality(store.surfaces) < Cardinality(InitSurfaces) + MaxTransforms
            /\ LET surface == NewHandle(store.surfaces) IN
               \* Surface::new().insert(core) runs before the geometry is looked up
               /\ store' = [store EXCEPT !.surfaces = @ \cup {surface}]
               /\ inserted' = Upsert(inserted, s, MapCount(inserted, s) + 1)
               /\ IF s \notin DOMAIN surfaceGeom
                  THEN \* of_surface panics; or_insert_with leaves the entry vacant
                       /\ aborted' = TRUE
                       /\ lastOp' = [op |-> "transform", ok |-> FALSE, src |-> s, result |-> 0, hit |-> FALSE]
                       /\ UNCHANGED <<surfaceGeom, surfaceGeom2, cache, returned>>
                  ELSE LET geometry == TransformGeom(surfaceGeom[s], t) IN
                       /\ surfaceGeom' = DefineSurface(surfaceGeom, surface, geometry)
                       /\ surfaceGeom2' = DefineSurface(surfaceGeom2, surface, geometry)
                       /\ cache' = Upsert(cache, s, surface)
                       /\ returned' = Upsert(returned, s, MapGet(returned, s) \cup {surface})
                       /\ lastOp' = [op |-> "transform", ok |-> TRUE, src |-> s, result |-> surface, hit |-> FALSE]
                       /\ UNCHANGED aborted
            /\ UNCHANGED <<derivedFrom, vertexGeom, curveGeom, revLog>>
    /\ UNCHANGED <<handleVars, checkVars>>

\* A new transform invocation starts with an empty TransformCache.
NewTransformCache ==
    /\ ~aborted
    /\ cache # EmptyMap
    /\ cache' = EmptyMap
    /\ returned' = EmptyMap
    /\ inserted' = EmptyMap
    /\ lastOp' = [op |-> "new_cache", ok |-> TRUE]
    /\ UNCHANGED <<handleVars, coreVars, checkVars, aborted, revLog>>

(***************************************************************************)
(* Reverse of a half-edge: (half_edge, end_vertex, surface).               *)
(***************************************************************************)
KeepStartGeom(vertex_geom_start, vertex_geom_end) == vertex_geom_start

\* the position defined for the start vertex on the new curve
StartGeomWritten(vertex_geom_start, vertex_geom_end) == vertex_geom_end

KeepEndGeom(vertex_geom_start, vertex_geom_end) == vertex_geom_end

\* the position defined for the end vertex on the new curve
EndGeomWritten(vertex_geom_start, vertex_geom_end) == vertex_geom_start

OriginalCurve(original, reversed) == original

\* HalfEdge::new(curve, ...): the curve of the new half-edge
NewHalfEdgeCurve(original, reversed) == reversed

reverse_curve_coordinate_systems(h, e, s) ==
    /\ ~aborted
    /\ h \in DOMAIN store.halfEdges
    /\ e \in store.vertices
    /\ s \in InitSurfaces
    /\ Cardinality(DOMAIN store.halfEdges) < 1 + MaxReversals
    /\ LET half_edge == store.halfEdges[h]
           start == half_edge.start_vertex
           c == half_edge.curve
       IN IF \/ ~HasVertexGeom(start, c)
             \/ ~HasVertexGeom(e, c)
             \/ ~HasCurveGeom(c, s)
          THEN \* an unwrap panics before anything is inserted or defined
               /\ aborted' = TRUE
               /\ lastOp' = [op |-> "reverse", ok |-> FALSE, h |-> h, e |-> e, s |-> s, result |-> 0]
               /\ UNCHANGED <<coreVars, revLog>>
          ELSE LET vertex_geom_start == vertexGeom[<<start, c>>]
                   vertex_geom_end == vertexGeom[<<e, c>>]
                   curve == NewHandle(store.curves)
                   new == NewHandle(DOMAIN store.halfEdges)
                   new_curve == NewHalfEdgeCurve(c, curve)
               IN /\ store' = [store EXCEPT
                          !.curves = @ \cup {curve},
                          !.halfEdges = Upsert(@, new,
                              [curve |-> new_curve, start_vertex |-> start])]
                  /\ curveGeom' = DefineCurve(curveGeom, curve, s,
                                              ReversePath(curveGeom[<<c, s>>]))
                  /\ derivedFrom' = Upsert(derivedFrom, new, h)
                  /\ vertexGeom' = DefineVertex(
                         DefineVertex(vertexGeom, start, new_curve,
                             StartGeomWritten(vertex_geom_start, vertex_geom_end)),
                         e, new_curve,
                         EndGeomWritten(vertex_geom_start, vertex_geom_end))
                  /\ revLog' = Upsert(revLog, new, [from |-> h, end_vertex |-> e, surface |-> s])
                  /\ lastOp' = [op |-> "reverse", ok |-> TRUE, h |-> h, e |-> e, s |-> s, result |-> new]
                  /\ UNCHANGED <<surfaceGeom, surfaceGeom2, aborted>>
    /\ UNCHANGED <<handleVars, checkVars, cache, returned, inserted>>

(***************************************************************************)
(* Validation: AdjacentHalfEdgesNotConnected.                              *)
(* Scalars are integers; a distance is carried as its square, and          *)
(* "distance > tolerance" is decided on the squares (both are >= 0).       *)
(***************************************************************************)
Positions == {0, 1, 2}
Tolerances == {0, 1}

\* Line: origin + direction * t
PointFromPathCoords(path, t) ==
    <<path.origin[1] + path.direction[1] * t, path.origin[2] + path.direction[2] * t>>

\* (a - b).magnitude(), squared
Magnitude2(a, b) ==
    (a[1] - b[1]) * (a[1] - b[1]) + (a[2] - b[2]) * (a[2] - b[2])

ExceedsOrEquals(distance2, identical_max_distance) ==
    distance2 >= identical_max_distance * identical_max_distance

\* distance_between_positions > config.identical_max_distance
Exceeds(distance2, identical_max_distance) ==
    distance2 > identical_max_distance * identical_max_distance

ErrorSwapped(end_pos, start_pos, distance2, first, second) ==
    [end_pos_of_first_half_edge |-> end_pos,
     start_pos_of_second_half_edge |-> start_pos,
     distance_between_positions2 |-> distance2,
     unconnected_half_edges |-> <<second, first>>]

\* the AdjacentHalfEdgesNotConnected value built for a pair
NotConnectedError(end_pos, start_pos, distance2, first, second) ==
    [end_pos_of_first_half_edge |-> end_pos,
     start_pos_of_second_half_edge |-> start_pos,
     distance_between_positions2 |-> distance2,
     unconnected_half_edges |-> <<first, second>>]

\* ObjectSet::pairs: every element with its successor, the last with the first.
Pairs(half_edges) ==
    [i \in 1..Len(half_edges) |->
        <<half_edges[i], half_edges[(i % Len(half_edges)) + 1]>>]

RECURSIVE Concat(_)
Concat(seqs) == IF seqs = <<>> THEN <<>> ELSE Head(seqs) \o Concat(Tail(seqs))

\* check_region: the exterior cycle, then the interior cycles
RegionCycles(region) == <<region.exterior>> \o region.interiors

\* ValidationCheck<Face> / ValidationCheck<Sketch>: the cycles of every region
ObjectCycles(obj) ==
    Concat([i \in 1..Len(obj.regions) |-> RegionCycles(obj.regions[i])])

\* The closure of check_cycle applied to one pair (first, second).
PairOutcome(first, second, surface) ==
    LET fc == store.halfEdges[first].curve
        sc == store.halfEdges[second].curve
        v == store.halfEdges[second].start_vertex
    IN IF ~HasVertexGeom(v, fc) \/ ~HasCurveGeom(fc, surface)
       THEN [kind |-> "abort"]
       ELSE IF ~HasCurveGeomAnywhere(sc)
       THEN [kind |-> "abort"]
       ELSE IF ~HasCurveGeom(sc, surface)
       THEN [kind |-> "skip"]
       ELSE IF ~HasVertexGeom(v, sc)
       THEN [kind |-> "abort"]
       ELSE LET end_pos_of_first_half_edge ==
                    PointFromPathCoords(curveGeom[<<fc, surface>>], vertexGeom[<<v, fc>>])
                start_pos_of_second_half_edge ==
                    PointFromPathCoords(curveGeom[<<sc, surface>>], vertexGeom[<<v, sc>>])
                distance2 ==
                    Magnitude2(end_pos_of_first_half_edge, start_pos_of_second_half_edge)
            IN IF Exceeds(distance2, config)
               THEN [kind |-> "error",
                     error |-> NotConnectedError(end_pos_of_first_half_edge,
                                   start_pos_of_second_half_edge, distance2, first, second)]
               ELSE [kind |-> "ok"]

\* The iterator is consumed in order; a panic ends it.
RECURSIVE Consume(_, _, _)
Consume(pairs, surface, errors) ==
    IF pairs = <<>> THEN [ran |-> TRUE, aborted |-> FALSE, errors |-> errors]
    ELSE LET r == PairOutcome(Head(pairs)[1], Head(pairs)[2], surface)
         IN IF r.kind = "abort" THEN [ran |-> TRUE, aborted |-> TRUE, errors |-> errors]
            ELSE Consume(Tail(pairs), surface,
                         IF r.kind = "error" THEN Append(errors, r.error) ELSE errors)

\* check_cycle over every cycle of the object, flattened
ObjectPairs(obj) ==
    Concat([i \in 1..Len(ObjectCycles(obj)) |-> Pairs(ObjectCycles(obj)[i])])

Check(obj) == Consume(ObjectPairs(obj), obj.surface, <<>>)

\* The objects under validation: a triangle A and a two-edge loop B.
CycleA == <<1, 2, 3>>
CycleB == <<4, 5>>
Region(exterior, interiors) == [exterior |-> exterior, interiors |-> interiors]
Face(surface, region) == [kind |-> "Face", surface |-> surface, regions |-> <<region>>]
Sketch(surface, regions) == [kind |-> "Sketch", surface |-> surface, regions |-> regions]
Objects ==
    { Face(1, Region(CycleA, <<>>)),
      Face(1, Region(CycleA, <<CycleB>>)),
      Sketch(1, <<Region(CycleA, <<>>), Region(CycleB, <<>>)>>) }

\* Face::polygon / HalfEdge::line_segment: each curve runs from its start
\* vertex (t = 0) to the next vertex (t = 1).
PolygonCurves ==
    [c \in 1..5 |->
        CASE c = 1 -> Line(<<0, 0>>, <<1, 0>>)
          [] c = 2 -> Line(<<1, 0>>, <<0, 1>>)
          [] c = 3 -> Line(<<1, 1>>, <<-1, -1>>)
          [] c = 4 -> Line(<<3, 3>>, <<1, 0>>)
          [] c = 5 -> Line(<<4, 3>>, <<-1, 0>>)]

NextInCycle == [h \in 1..5 |->
        CASE h = 1 -> 2 [] h = 2 -> 3 [] h = 3 -> 1 [] h = 4 -> 5 [] h = 5 -> 4]

PolygonVertexGeom ==
    [k \in {<<h, h>> : h \in 1..5} \cup {<<NextInCycle[h], h>> : h \in 1..5} |->
        IF k[1] = k[2] THEN 0 ELSE 1]

\* Curves that may lack a definition on the checked surface (0: none lacks one).
UndefinedChoices == {0, 2, 5}

\* No check has run on the current geometry.
NoReport == [ran |-> FALSE, aborted |-> FALSE, errors |-> <<>>]

CheckAborted == report.aborted

\* define_vertex on an existing (vertex, curve) entry, as the test's update does
RedefineVertex(v, c, p) ==
    /\ ~CheckAborted
    /\ edits < MaxEdits
    /\ <<v, c>> \in DOMAIN vertexGeom
    /\ vertexGeom[<<v, c>>] # p
    /\ vertexGeom' = DefineVertex(vertexGeom, v, c, p)
    /\ edits' = edits + 1
    /\ report' = NoReport
    /\ UNCHANGED <<handleVars, opsVars, object, config,
                   store, derivedFrom, curveGeom, surfaceGeom, surfaceGeom2>>

\* check(object, geometry, config), consumed to its end
RunCheck ==
    /\ ~report.ran
    /\ report' = Check(object)
    /\ UNCHANGED <<handleVars, coreVars, opsVars, object, config, edits>>

(***************************************************************************)
(* Initial states and specifications.                                      *)
(***************************************************************************)
IdleOps ==
    /\ cache = EmptyMap
    /\ aborted = FALSE
    /\ lastOp = [op |-> None, ok |-> TRUE]
    /\ returned = EmptyMap
    /\ inserted = EmptyMap
    /\ revLog = EmptyMap

IdleCheck ==
    /\ object = None
    /\ config = 0
    /\ edits = 0
    /\ report = NoReport

IdleCore ==
    /\ store = [vertices |-> {}, curves |-> {}, surfaces |-> {}, halfEdges |-> EmptyMap]
    /\ derivedFrom = EmptyMap
    /\ vertexGeom = EmptyMap
    /\ curveGeom = EmptyMap
    /\ surfaceGeom = EmptyMap
    /\ surfaceGeom2 = EmptyMap

\* One half-edge on curve 1 from vertex 1; vertex 3 has no geometry; surface 2
\* may lack geometry.
InitOps ==
    /\ InitHandle
    /\ IdleCheck
    /\ IdleOps
    /\ store = [vertices |-> InitVertices, curves |-> {1}, surfaces |-> InitSurfaces,
                halfEdges |-> (1 :> [curve |-> 1, start_vertex |-> 1])]
    /\ derivedFrom = EmptyMap
    /\ \E p \in {1, 2} : vertexGeom = (<<1, 1>> :> 0) @@ (<<2, 1>> :> p)
    /\ curveGeom = (<<1, 1>> :> Line(<<0, 0>>, <<1, 0>>))
    /\ \E g \in {(1 :> 0), (1 :> 0) @@ (2 :> 1)} :
        /\ surfaceGeom = g
        /\ surfaceGeom2 = g

NextOps ==
    \/ \E s \in 1..(Cardinality(InitSurfaces) + MaxTransforms), t \in Transforms :
        transform_with_cache(s, t)
    \/ NewTransformCache
    \/ \E h \in 1..(1 + MaxReversals), e \in InitVertices, s \in InitSurfaces :
        reverse_curve_coordinate_systems(h, e, s)

SpecOps == InitOps /\ [][NextOps]_vars

InitHandleSpec ==
    /\ InitHandle
    /\ IdleCore
    /\ IdleOps
    /\ IdleCheck

NextHandle ==
    \/ \E h \in HandleIds, v \in Values :
        HandleNew(h, v) /\ UNCHANGED <<coreVars, opsVars, checkVars>>
    \/ \E h, g \in HandleIds :
        HandleClone(h, g) /\ UNCHANGED <<coreVars, opsVars, checkVars>>
    \/ \E h \in HandleIds :
        HandleDrop(h) /\ UNCHANGED <<coreVars, opsVars, checkVars>>

SpecHandle == InitHandleSpec /\ [][NextHandle]_vars

InitCheck ==
    /\ InitHandle
    /\ IdleOps
    /\ object \in Objects
    /\ config \in Tolerances
    /\ edits = 0
    /\ report = NoReport
    /\ store = [vertices |-> 1..5, curves |-> 1..5, surfaces |-> InitSurfaces,
                halfEdges |-> [h \in 1..5 |-> [curve |-> h, start_vertex |-> h]]]
    /\ derivedFrom = EmptyMap
    /\ vertexGeom = PolygonVertexGeom
    /\ \E u \in UndefinedChoices :
        curveGeom = [k \in {<<c, IF c = u THEN 2 ELSE 1>> : c \in 1..5} |->
                        PolygonCurves[k[1]]]
    /\ surfaceGeom = (1 :> 0) @@ (2 :> 1)
    /\ surfaceGeom2 = (1 :> 0) @@ (2 :> 1)

NextCheck ==
    \/ \E v \in 1..5, c \in 1..5, p \in Positions : RedefineVertex(v, c, p)
    \/ RunCheck

SpecCheck == InitCheck /\ [][NextCheck]_vars

(***************************************************************************)
(* Properties.                                                             *)
(***************************************************************************)

\* C1: handle equality is identity only. Two live handles are equal (and
\* compare Equal) exactly when they refer to the slot made by the same
\* Handle::new call, whatever values the slots hold: handles from separate
\* new calls differ even with identical values, and a clone equals its source.
C1_HandleIdentity ==
    \A a, b \in HandleIds :
        (Live(a) /\ Live(b)) =>
            /\ HandleEq(a, b) <=> (slotOf[a] = slotOf[b])
            /\ (HandleCmp(a, b) = "Equal") <=> (slotOf[a] = slotOf[b])

\* Two handles from separate new calls on equal values are unequal, while a
\* third handle, a clone of the first, equals it.
C1_Witness ==
    \E a, b, c \in HandleIds :
        /\ a # c
        /\ Live(a) /\ Live(b) /\ Live(c)
        /\ slotOf[a] # slotOf[b]
        /\ Deref(a) = Deref(b)
        /\ ~HandleEq(a, b)
        /\ slotOf[c] = slotOf[a]
        /\ HandleEq(a, c)

\* C2: under one TransformCache, every call that returned for a source surface
\* returned the same handle, exactly one surface was inserted for that source,
\* and that surface has its geometry defined in both surface layers.
C2_TransformShared ==
    \A s \in DOMAIN returned :
        /\ s \in DOMAIN cache
        /\ returned[s] = {cache[s]}
        /\ MapCount(inserted, s) = 1
        /\ cache[s] \in store.surfaces
        /\ cache[s] \in DOMAIN surfaceGeom
        /\ cache[s] \in DOMAIN surfaceGeom2

\* A later call on an already transformed source has just returned from the cache.
C2_Witness ==
    /\ lastOp.op = "transform"
    /\ lastOp.ok
    /\ lastOp.hit
    /\ returned[lastOp.src] = {lastOp.result}

ReverseCompleted == lastOp'.op = "reverse" /\ lastOp'.ok /\ store' # store

\* C5: a completed Reverse of (h, e, s) returns a new half-edge on the reversed
\* curve (a new curve whose path on s is the original's path reversed) with the
\* original's start vertex; on the new curve the start vertex has the position
\* the end vertex had on the original curve before the call, and the end vertex
\* has the position the start vertex had on the original curve before the call.
C5_ReverseSwaps ==
    [][ReverseCompleted =>
        LET old == store.halfEdges[lastOp'.h]
            e == lastOp'.e
            new == store'.halfEdges[lastOp'.result]
        IN /\ lastOp'.result \notin DOMAIN store.halfEdges
           /\ new.start_vertex = old.start_vertex
           /\ new.curve \notin store.curves
           /\ curveGeom'[<<new.curve, lastOp'.s>>] =
                  ReversePath(curveGeom[<<old.curve, lastOp'.s>>])
           /\ vertexGeom'[<<old.start_vertex, new.curve>>] = vertexGeom[<<e, old.curve>>]
           /\ vertexGeom'[<<e, new.curve>>] = vertexGeom[<<old.start_vertex, old.curve>>]
    ]_vars

\* A Reverse has completed for distinct start and end vertices whose positions differ.
C5_Witness ==
    /\ lastOp.op = "reverse"
    /\ lastOp.ok
    /\ LET new == store.halfEdges[lastOp.result] IN
        /\ lastOp.e # new.start_vertex
        /\ vertexGeom[<<lastOp.e, new.curve>>] # vertexGeom[<<new.start_vertex, new.curve>>]

\* The half-edges made by two Reverse calls in a row with the same end vertex
\* and surface, as <<original, twice reversed>>.
TwiceReversed ==
    {<<revLog[revLog[h2].from].from, h2>> : h2 \in
        {h \in DOMAIN revLog :
            /\ revLog[h].from \in DOMAIN revLog
            /\ revLog[revLog[h].from].end_vertex = revLog[h].end_vertex
            /\ revLog[revLog[h].from].surface = revLog[h].surface}}

\* C6: after Reverse twice with the same end vertex and surface, the start and
\* the end vertex have on the final curve the positions they had on the
\* original curve, and the final curve's direction on the surface is the
\* original curve's direction.
C6_ReverseTwice ==
    \A p \in TwiceReversed :
        LET h0 == store.halfEdges[p[1]]
            h2 == store.halfEdges[p[2]]
            e == revLog[p[2]].end_vertex
            s == revLog[p[2]].surface
        IN /\ h2.start_vertex = h0.start_vertex
           /\ vertexGeom[<<h2.start_vertex, h2.curve>>] = vertexGeom[<<h0.start_vertex, h0.curve>>]
           /\ vertexGeom[<<e, h2.curve>>] = vertexGeom[<<e, h0.curve>>]
           /\ curveGeom[<<h2.curve, s>>].direction = curveGeom[<<h0.curve, s>>].direction

\* A half-edge was reversed twice, its two vertices distinct and at different positions.
C6_Witness ==
    \E p \in TwiceReversed :
        LET h0 == store.halfEdges[p[1]]
            e == revLog[p[2]].end_vertex
        IN /\ e # h0.start_vertex
           /\ vertexGeom[<<e, h0.curve>>] # vertexGeom[<<h0.start_vertex, h0.curve>>]
           /\ store.halfEdges[p[2]].curve # h0.curve

\* C8 (as claimed): a Reverse or Transform call that aborts leaves the store,
\* the geometry layers and the transform cache exactly as before the call.
C8_AbortLeavesNoTrace ==
    [][(aborted' /\ ~aborted) => UNCHANGED <<coreVars, cache>>]_vars

OpCompleted == lastOp'.op \in {"reverse", "transform"} /\ lastOp'.ok

\* C10: a completed Reverse or Transform only adds. Every geometry entry and
\* every half-edge and handle of the store that existed before the call is
\* there afterwards with the same value, and every entry written is keyed by a
\* curve or surface handle that did not exist before the call.
C10_OnlyAdds ==
    [][OpCompleted =>
        /\ \A k \in DOMAIN vertexGeom :
              k \in DOMAIN vertexGeom' /\ vertexGeom'[k] = vertexGeom[k]
        /\ \A k \in DOMAIN curveGeom :
              k \in DOMAIN curveGeom' /\ curveGeom'[k] = curveGeom[k]
        /\ \A k \in DOMAIN surfaceGeom :
              k \in DOMAIN surfaceGeom' /\ surfaceGeom'[k] = surfaceGeom[k]
        /\ \A k \in DOMAIN surfaceGeom2 :
              k \in DOMAIN surfaceGeom2' /\ surfaceGeom2'[k] = surfaceGeom2[k]
        /\ \A h \in DOMAIN store.halfEdges :
              h \in DOMAIN store'.halfEdges /\ store'.halfEdges[h] = store.halfEdges[h]
        /\ store.vertices = store'.vertices
        /\ store.curves \subseteq store'.curves
        /\ store.surfaces \subseteq store'.surfaces
        /\ \A k \in (DOMAIN vertexGeom') \ (DOMAIN vertexGeom) : k[2] \notin store.curves
        /\ \A k \in (DOMAIN curveGeom') \ (DOMAIN curveGeom) : k[1] \notin store.curves
        /\ \A k \in (DOMAIN surfaceGeom') \ (DOMAIN surfaceGeom) : k \notin store.surfaces
        /\ \A k \in (DOMAIN surfaceGeom2') \ (DOMAIN surfaceGeom2) : k \notin store.surfaces
    ]_vars

\* A Reverse has just completed on vertices at different positions, after a
\* Transform that filled the cache.
C10_Witness ==
    /\ lastOp.op = "reverse"
    /\ lastOp.ok
    /\ cache # EmptyMap
    /\ LET old == store.halfEdges[lastOp.h] IN
        vertexGeom[<<lastOp.e, old.curve>>] # vertexGeom[<<old.start_vertex, old.curve>>]

(***************************************************************************)
(* The check, in the terms of the claims.                                  *)
(***************************************************************************)
\* The cyclically adjacent pairs of a cycle, the wrap-around pair included.
AdjacentPairs(cycle) ==
    {<<cycle[i], cycle[j]>> : <<i, j>> \in
        {q \in (1..Len(cycle)) \X (1..Len(cycle)) :
            q[2] = q[1] + 1 \/ (q[1] = Len(cycle) /\ q[2] = 1)}}

AllCycles(obj) ==
    UNION {{obj.regions[i].exterior} \cup
           {obj.regions[i].interiors[j] : j \in 1..Len(obj.regions[i].interiors)} :
           i \in 1..Len(obj.regions)}

AllAdjacentPairs(obj) == UNION {AdjacentPairs(cycle) : cycle \in AllCycles(obj)}

SharedVertex(P) == store.halfEdges[P[2]].start_vertex
CurveOf(h) == store.halfEdges[h].curve

\* Both encodings of the shared vertex map to a position on the surface.
Mapped(P, surface) ==
    /\ HasVertexGeom(SharedVertex(P), CurveOf(P[1]))
    /\ HasCurveGeom(CurveOf(P[1]), surface)
    /\ HasVertexGeom(SharedVertex(P), CurveOf(P[2]))
    /\ HasCurveGeom(CurveOf(P[2]), surface)

EndPos(P, surface) ==
    PointFromPathCoords(curveGeom[<<CurveOf(P[1]), surface>>],
                        vertexGeom[<<SharedVertex(P), CurveOf(P[1])>>])

StartPos(P, surface) ==
    PointFromPathCoords(curveGeom[<<CurveOf(P[2]), surface>>],
                        vertexGeom[<<SharedVertex(P), CurveOf(P[2])>>])

Gap2(P, surface) == Magnitude2(EndPos(P, surface), StartPos(P, surface))

Mismatched(P, surface) ==
    Mapped(P, surface) /\ Gap2(P, surface) > config * config

AllWithinTolerance ==
    \A P \in AllAdjacentPairs(object) :
        Mapped(P, object.surface) /\ Gap2(P, object.surface) <= config * config

\* C3: for an object whose every cyclically adjacent pair has mapped positions
\* no further apart than identical_max_distance, a gap of exactly the tolerance
\* included, the check completes and reports zero errors.
C3_ConnectedNoErrors ==
    (report.ran /\ AllWithinTolerance) =>
        (~report.aborted /\ report.errors = <<>>)

\* The check ran on an object with a pair whose gap is exactly a non-zero tolerance.
C3_Witness ==
    /\ report.ran
    /\ AllWithinTolerance
    /\ config > 0
    /\ \E P \in AllAdjacentPairs(object) : Gap2(P, object.surface) = config * config

MismatchedPairs == {P \in AllAdjacentPairs(object) : Mismatched(P, object.surface)}

AllMapped == \A P \in AllAdjacentPairs(object) : Mapped(P, object.surface)

ObjectHalfEdges == UNION {{P[1], P[2]} : P \in AllAdjacentPairs(object)}

\* A half-edge whose curve has geometry somewhere but none on the checked surface.
LacksLocalCurve(h) ==
    HasCurveGeomAnywhere(CurveOf(h)) /\ ~HasCurveGeom(CurveOf(h), object.surface)

\* C7 (as claimed): with a half-edge whose curve has no local definition on the
\* checked surface, the check runs to completion without a fatal abort and
\* reports no error for the pairs that involve that half-edge.
C7_MissingCurveIsSkipped ==
    report.ran =>
        \A h \in ObjectHalfEdges :
            LacksLocalCurve(h) =>
                /\ ~report.aborted
                /\ \A i \in 1..Len(report.errors) :
                      h \notin {report.errors[i].unconnected_half_edges[1],
                                report.errors[i].unconnected_half_edges[2]}

\* A pair is checkable when second's curve has a local definition on the surface.
Checkable(P, surface) == HasCurveGeom(CurveOf(P[2]), surface)

ReportedPairs == {report.errors[i].unconnected_half_edges : i \in 1..Len(report.errors)}

\* C9 (as claimed): the check reports every cyclically adjacent pair, the
\* wrap-around pair included, of every cycle of every region that is checkable
\* and mismatched, and the number of errors is the number of such pairs.
C9_EveryPairExamined ==
    report.ran =>
        /\ ReportedPairs =
              {P \in AllAdjacentPairs(object) :
                  Checkable(P, object.surface) /\ Mismatched(P, object.surface)}
        /\ Len(report.errors) = Cardinality(ReportedPairs)

====
